---------------------------- MODULE Spec2Model ----------------------------
(***************************************************************************)
(* CarSequencingProblem (car_sequencing_problem.py): construction of an    *)
(* instance (directly from keyword arguments, or from the integers of an   *)
(* instance file) and evaluate_solution, the sliding-window violation      *)
(* count of a candidate permutation.                                       *)
(*                                                                         *)
(* Python lists are TLA+ sequences: the Python index i is the TLA+ index   *)
(* i + 1.  A Python value that may be of several types is a record         *)
(* [t |-> type name, v |-> integer value].                                 *)
(***************************************************************************)
EXTENDS Integers, Sequences, FiniteSets, TLC

VARIABLES
    args,     \* the arguments of the constructor call
    self,     \* the attributes of the object
    attrs,    \* the names of the attributes assigned so far
    ctor,     \* the constructor call: "pending", "ok", or the exception raised
    frames    \* one call frame of evaluate_solution per caller

vars == <<args, self, attrs, ctor, frames>>

(***************************************************************************)
(* Bounds of the model.                                                    *)
(***************************************************************************)
MaxPos == 3      \* nb_positions ranges over 1..MaxPos; a candidate has at most MaxPos items
MaxCap == 1      \* max_cars_per_window[o] ranges over 0..MaxCap
NCallers == 2    \* concurrent callers of evaluate_solution
MaxTokens == 8   \* an instance file holds at most MaxTokens integers
MaxTok == 2      \* each of them in 0..MaxTok

(***************************************************************************)
(* Python values of a candidate's elements.                                *)
(***************************************************************************)
IntVal(x) == [t |-> "int", v |-> x]
FloatVal(x) == [t |-> "float", v |-> x]     \* the float x.0
StrVal == [t |-> "str", v |-> 0]            \* the string "a"

IsNumber(e) == e.t \in {"int", "float"}

\* Python's ==: numbers compare by value across int and float, a string
\* equals only a string.
PyEq(a, b) ==
    IF IsNumber(a) /\ IsNumber(b) THEN a.v = b.v
    ELSE a.t = b.t /\ a.v = b.v

\* Python's <, defined between two numbers or between two strings.
PyLt(a, b) == a.v < b.v

\* list(range(n))
RangeList(n) == [i \in 1..n |-> IntVal(i - 1)]

\* a == b on two lists
ListEq(a, b) ==
    /\ Len(a) = Len(b)
    /\ \A i \in 1..Len(a) : PyEq(a[i], b[i])

\* Insertion of e into the sorted list s, after the elements not greater
\* than it (the sort is stable).
RECURSIVE Insert(_, _)
Insert(s, e) ==
    IF s = <<>> THEN <<e>>
    ELSE IF PyLt(e, s[Len(s)]) THEN Append(Insert(SubSeq(s, 1, Len(s) - 1), e), s[Len(s)])
    ELSE Append(s, e)

RECURSIVE SortList(_)
SortList(s) ==
    IF s = <<>> THEN <<>>
    ELSE Insert(SortList(SubSeq(s, 1, Len(s) - 1)), s[Len(s)])

\* sorted(s) raises TypeError when it compares a number with a string,
\* which it does exactly when the list holds both.
SortRaises(s) ==
    \E i, j \in 1..Len(s) : IsNumber(s[i]) /\ ~IsNumber(s[j])

(***************************************************************************)
(* evaluate_solution, one step at a time.  A frame holds the locals of one *)
(* call; pc names the statement the call is at.                            *)
(***************************************************************************)
PENALTY == 1000000000

Frame(solution) ==
    [pc |-> "validate", solution |-> solution, sequence |-> <<>>,
     total_violations |-> 0, o |-> 0, w |-> 0, max_allowed |-> 0,
     j |-> 0, k |-> 0, count |-> 0, ret |-> 0, exc |-> "none"]

Return(f, value) == [f EXCEPT !.pc = "return", !.ret = value]
Raise(f, e) == [f EXCEPT !.pc = "raise", !.exc = e]

\* isinstance(solution, (list, tuple))
IsListOrTuple(solution) == solution.kind \in {"list", "tuple"}

\* Validate with the comparison of sorted(solution) to range left out.
ValidateLengthOnly(obj, f) ==
    IF ~IsListOrTuple(f.solution) \/ Len(f.solution.items) # obj.nb_positions
        THEN Return(f, PENALTY)
    ELSE [f EXCEPT !.pc = "reconstruct"]

\* lines 93-97: the structural validation
Validate(obj, f) ==
    LET items == f.solution.items IN
    IF ~IsListOrTuple(f.solution) \/ Len(items) # obj.nb_positions
        THEN Return(f, PENALTY)
    ELSE IF SortRaises(items) THEN Raise(f, "TypeError")
    ELSE IF ~ListEq(SortList(items), RangeList(obj.nb_positions))
        THEN Return(f, PENALTY)
    ELSE [f EXCEPT !.pc = "reconstruct"]

\* lines 99-101: sequence = [self.initial_sequence[i] for i in solution]
Reconstruct(obj, f) ==
    LET items == f.solution.items IN
    IF \E i \in 1..Len(items) : items[i].t # "int"
        THEN Raise(f, "TypeError")
    ELSE IF \E i \in 1..Len(items) : items[i].v + 1 \notin 1..Len(obj.initial_sequence)
        THEN Raise(f, "IndexError")
    ELSE [f EXCEPT !.sequence = [i \in 1..Len(items) |-> obj.initial_sequence[items[i].v + 1]],
                   !.total_violations = 0, !.o = 0, !.pc = "for_o"]

\* lines 102-104: for o in range(self.nb_options)
ForOption(obj, f) ==
    IF f.o < obj.nb_options
        THEN [f EXCEPT !.w = obj.window_size[f.o + 1],
                       !.max_allowed = obj.max_cars_per_window[f.o + 1],
                       !.j = 0, !.pc = "for_j"]
    ELSE Return(f, f.total_violations)

\* lines 106-107: for j in range(self.nb_positions - w + 1)
ForWindow(obj, f) ==
    IF f.j < obj.nb_positions - f.w + 1
        THEN [f EXCEPT !.count = 0, !.k = 0, !.pc = "for_k"]
    ELSE [f EXCEPT !.o = f.o + 1, !.pc = "for_o"]

\* ForCar with the candidate applied twice: the class is looked up at
\* sequence[solution[j+k]] instead of sequence[j+k].
ForCarTwice(obj, f) ==
    IF f.k < f.w
        THEN LET car_class == f.sequence[f.solution.items[f.j + f.k + 1].v + 1] IN
             [f EXCEPT !.count = IF obj.options[car_class + 1][f.o + 1]
                                     THEN f.count + 1 ELSE f.count,
                       !.k = f.k + 1]
    ELSE [f EXCEPT !.pc = "if_count"]

\* lines 108-111: for k in range(w)
ForCar(obj, f) ==
    IF f.k < f.w
        THEN LET car_class == f.sequence[f.j + f.k + 1] IN
             [f EXCEPT !.count = IF obj.options[car_class + 1][f.o + 1]
                                     THEN f.count + 1 ELSE f.count,
                       !.k = f.k + 1]
    ELSE [f EXCEPT !.pc = "if_count"]

\* IfCount counting one violation per window in excess.
IfCountOne(obj, f) ==
    [f EXCEPT !.total_violations =
                  IF f.count > f.max_allowed
                      THEN f.total_violations + 1
                      ELSE f.total_violations,
              !.j = f.j + 1, !.pc = "for_j"]

\* IfCount with the comparison turned round: the unused capacity is added.
IfCountInverted(obj, f) ==
    [f EXCEPT !.total_violations =
                  IF f.count < f.max_allowed
                      THEN f.total_violations + (f.max_allowed - f.count)
                      ELSE f.total_violations,
              !.j = f.j + 1, !.pc = "for_j"]

\* lines 112-113: if count > max_allowed
IfCount(obj, f) ==
    [f EXCEPT !.total_violations =
                  IF f.count > f.max_allowed
                      THEN f.total_violations + (f.count - f.max_allowed)
                      ELSE f.total_violations,
              !.j = f.j + 1, !.pc = "for_j"]

Finished(f) == f.pc \in {"return", "raise"}

Step(obj, f) ==
    CASE f.pc = "validate" -> Validate(obj, f)
      [] f.pc = "reconstruct" -> Reconstruct(obj, f)
      [] f.pc = "for_o" -> ForOption(obj, f)
      [] f.pc = "for_j" -> ForWindow(obj, f)
      [] f.pc = "for_k" -> ForCar(obj, f)
      [] f.pc = "if_count" -> IfCount(obj, f)

RECURSIVE Run(_, _)
Run(obj, f) == IF Finished(f) THEN f ELSE Run(obj, Step(obj, f))

\* The outcome of one whole call: the value returned, or the exception.
Outcome(f) == [ret |-> f.ret, exc |-> f.exc]

evaluate_solution(obj, solution) == Outcome(Run(obj, Frame(solution)))

(***************************************************************************)
(* Instances and candidates of the evaluation specifications.              *)
(***************************************************************************)
Classes == {0, 1}           \* class ids; options has one row per class
WindowSizes == 1..MaxPos    \* window_size[o]; larger than nb_positions when that is small

AttrNames == {"nb_positions", "nb_options", "max_cars_per_window",
              "window_size", "options", "initial_sequence"}

\* An optional argument: None, or a value.
None == <<>>
Some(x) == <<x>>

\* The objects with nb_positions = n and nb_options = m that have the
\* documented shape of the instance data (lines 14-21).
InstancesOf(n, m) ==
    [nb_positions : {n}, nb_options : {m},
     max_cars_per_window : [1..m -> 0..MaxCap],
     window_size : [1..m -> WindowSizes],
     options : [1..Cardinality(Classes) -> [1..m -> BOOLEAN]],
     initial_sequence : [1..n -> Classes]]

\* The instances of one option, and those of two options, which have at
\* most three positions.
Instances ==
    UNION ({InstancesOf(n, 1) : n \in 1..MaxPos} \cup {InstancesOf(n, 2) : n \in 1..3})

\* One instance per nb_positions, on which every candidate value is tried:
\* one option, windows of 2 with at most 1 car, required by class 0 only.
ProbeInstances ==
    {obj \in UNION {InstancesOf(n, 1) : n \in 1..MaxPos} :
        /\ obj.max_cars_per_window = <<1>>
        /\ obj.window_size = <<2>>
        /\ obj.options = <<(<<TRUE>>), (<<FALSE>>)>>
        /\ \A i \in 1..obj.nb_positions : obj.initial_sequence[i] = i % 2}

\* The keyword arguments that build obj directly.
DirectArgs(obj) ==
    [instance_file |-> None,
     nb_positions |-> Some(obj.nb_positions),
     nb_options |-> Some(obj.nb_options),
     max_cars_per_window |-> Some(obj.max_cars_per_window),
     window_size |-> Some(obj.window_size),
     options |-> Some(obj.options),
     initial_sequence |-> Some(obj.initial_sequence)]

PermsOf(n) ==
    {p \in [1..n -> 0..(n - 1)] : \A i, j \in 1..n : p[i] = p[j] => i = j}

ListOf(p) == [kind |-> "list", items |-> [i \in 1..Len(p) |-> IntVal(p[i])]]

PermCandidates(n) == {ListOf(p) : p \in PermsOf(n)}

\* The values an item of a candidate may be: integers in and out of range,
\* the float 0.0, the string "a".
Items == {IntVal(x) : x \in -1..MaxPos} \cup {FloatVal(0), StrVal}

\* "deque" stands for any value that is neither a list nor a tuple.
Kinds == {"list", "tuple", "deque"}

AnyCandidates ==
    [kind : Kinds, items : UNION {[1..l -> Items] : l \in 0..MaxPos}]

Callers == 1..NCallers

(***************************************************************************)
(* SpecEval: one call of evaluate_solution on a built instance, with every *)
(* permutation on every instance and every candidate on the probe          *)
(* instances.                                                              *)
(***************************************************************************)
InitEval ==
    /\ \/ /\ self \in Instances
          /\ \E sol \in PermCandidates(self.nb_positions) :
                 frames = [t \in {1} |-> Frame(sol)]
       \/ /\ self \in ProbeInstances
          /\ \E sol \in AnyCandidates : frames = [t \in {1} |-> Frame(sol)]
    /\ args = DirectArgs(self)
    /\ attrs = AttrNames
    /\ ctor = "ok"

\* The whole call, lines 93-114.
Evaluate(t) ==
    /\ ctor = "ok"
    /\ ~Finished(frames[t])
    /\ frames' = [frames EXCEPT ![t] = Run(self, frames[t])]
    /\ UNCHANGED <<args, self, attrs, ctor>>

NextEval == \E t \in DOMAIN frames : Evaluate(t)

SpecEval == InitEval /\ [][NextEval]_vars

(***************************************************************************)
(* Properties of evaluate_solution, checked under SpecEval.                *)
(***************************************************************************)
AllInts(items) == \A i \in 1..Len(items) : items[i].t = "int"

\* items holds each of 0..n-1 exactly once
IsPermutation(items, n) ==
    /\ Len(items) = n
    /\ {items[i].v : i \in 1..Len(items)} = 0..(n - 1)

IsPermCandidate(obj, sol) ==
    /\ IsListOrTuple(sol)
    /\ AllInts(sol.items)
    /\ IsPermutation(sol.items, obj.nb_positions)

WindowCount(obj, sol, o, j) ==
    Cardinality({k \in j..(j + obj.window_size[o + 1] - 1) :
        obj.options[obj.initial_sequence[sol.items[k + 1].v + 1] + 1][o + 1]})

\* max(0, count(o, j) - max_per_window[o])
Excess(obj, sol, o, j) ==
    LET c == WindowCount(obj, sol, o, j)
        m == obj.max_cars_per_window[o + 1]
    IN IF c > m THEN c - m ELSE 0

\* the window starts of option o: 0..(position_count - window_size[o])
WindowStarts(obj, o) ==
    {j \in 0..obj.nb_positions : j <= obj.nb_positions - obj.window_size[o + 1]}

RECURSIVE SumExcess(_, _, _)
SumExcess(obj, sol, S) ==
    IF S = {} THEN 0
    ELSE LET x == CHOOSE y \in S : TRUE
         IN Excess(obj, sol, x[1], x[2]) + SumExcess(obj, sol, S \ {x})

ViolationSum(obj, sol) ==
    SumExcess(obj, sol,
              {x \in (0..(obj.nb_options - 1)) \X (0..obj.nb_positions) :
                  x[2] \in WindowStarts(obj, x[1])})

\* C2: on a permutation the call returns the sum, over every option and
\* every window start, of the window's excess.
ScoreIsSumOfExcesses ==
    \A t \in DOMAIN frames :
        LET f == frames[t] IN
        (Finished(f) /\ IsPermCandidate(self, f.solution)) =>
            /\ f.pc = "return"
            /\ f.ret = ViolationSum(self, f.solution)

\* C2 witness: a returned call where two overlapping windows of one option
\* are both in excess and a window of the other option is in excess too.
OverlappingWindowsScored ==
    \E t \in DOMAIN frames :
        LET f == frames[t] IN
        /\ f.pc = "return"
        /\ IsPermCandidate(self, f.solution)
        /\ self.nb_options = 2
        /\ \E o \in 0..1 :
            /\ self.window_size[o + 1] = 2
            /\ self.nb_positions = 3
            /\ Excess(self, f.solution, o, 0) > 0
            /\ Excess(self, f.solution, o, 1) > 0
            /\ \E j \in WindowStarts(self, 1 - o) : Excess(self, f.solution, 1 - o, j) > 0
        /\ f.ret >= 3

\* obj with max_cars_per_window[o] replaced by m
WithLimit(obj, o, m) == [obj EXCEPT !.max_cars_per_window[o + 1] = m]

\* C8: on a permutation, a larger max_cars_per_window[o] for one option o,
\* all else fixed, gives a score that is not larger.
LargerLimitNeverRaisesScore ==
    \A t \in DOMAIN frames :
        LET f == frames[t] IN
        (f.pc = "return" /\ IsPermCandidate(self, f.solution)) =>
            \A o \in 0..(self.nb_options - 1) :
                \A m \in (self.max_cars_per_window[o + 1] + 1)..(MaxCap + 2) :
                    evaluate_solution(WithLimit(self, o, m), f.solution).ret <= f.ret

\* C8 witness: a returned call whose score a larger limit of one option
\* strictly lowers while the other option is in excess as well.
LargerLimitLowersScore ==
    \E t \in DOMAIN frames :
        LET f == frames[t] IN
        /\ f.pc = "return"
        /\ IsPermCandidate(self, f.solution)
        /\ self.nb_options = 2
        /\ LET g == evaluate_solution(WithLimit(self, 0, self.max_cars_per_window[1] + 1),
                                      f.solution)
           IN g.ret < f.ret /\ g.ret > 0

\* the class of the car each position receives
ClassSequence(obj, sol) ==
    [i \in 1..Len(sol.items) |-> obj.initial_sequence[sol.items[i].v + 1]]

\* C10: two permutations that place cars of the same classes at the same
\* positions get the same score.
ScoreDependsOnClassesOnly ==
    \A t \in DOMAIN frames :
        LET f == frames[t] IN
        (f.pc = "return" /\ IsPermCandidate(self, f.solution)) =>
            \A q \in PermCandidates(self.nb_positions) :
                ClassSequence(self, q) = ClassSequence(self, f.solution) =>
                    evaluate_solution(self, q).ret = f.ret

\* C10 witness: a returned call with a positive score, and another
\* permutation that exchanges two cars of one class.
SameClassExchange ==
    \E t \in DOMAIN frames :
        LET f == frames[t] IN
        /\ f.pc = "return"
        /\ IsPermCandidate(self, f.solution)
        /\ f.ret > 0
        /\ \E q \in PermCandidates(self.nb_positions) :
            /\ q # f.solution
            /\ ClassSequence(self, q) = ClassSequence(self, f.solution)
        /\ \E i, j \in 1..self.nb_positions :
               self.initial_sequence[i] # self.initial_sequence[j]

\* C9: no call of evaluate_solution ends in an exception.
EvaluateNeverRaises ==
    \A t \in DOMAIN frames : frames[t].pc # "raise"

(***************************************************************************)
(* SpecConc: NCallers calls of evaluate_solution on one instance, their    *)
(* statements interleaved.                                                 *)
(***************************************************************************)
ConcInstances ==
    {obj \in InstancesOf(3, 1) :
        /\ obj.max_cars_per_window = <<1>>
        /\ obj.window_size = <<2>>
        /\ obj.options = <<(<<TRUE>>), (<<FALSE>>)>>
        /\ obj.initial_sequence = <<0, 0, 1>>}

ConcCandidates ==
    PermCandidates(3) \cup {[kind |-> "list", items |-> <<IntVal(0), IntVal(0), IntVal(1)>>]}

InitConc ==
    /\ self \in ConcInstances
    /\ args = DirectArgs(self)
    /\ attrs = AttrNames
    /\ ctor = "ok"
    /\ frames \in [Callers -> {Frame(sol) : sol \in ConcCandidates}]

\* StepCall with total_violations kept in one place for all the callers
\* instead of in each call's locals.
StepCallShared(t) ==
    /\ ctor = "ok"
    /\ ~Finished(frames[t])
    /\ LET g == Step(self, frames[t]) IN
       frames' = [u \in DOMAIN frames |->
                    IF u = t THEN g
                    ELSE IF Finished(frames[u]) THEN frames[u]
                    ELSE [frames[u] EXCEPT !.total_violations = g.total_violations]]
    /\ UNCHANGED <<args, self, attrs, ctor>>

\* One statement of caller t's call.  The locals are the call's own; the
\* object is only read.
StepCall(t) ==
    /\ ctor = "ok"
    /\ ~Finished(frames[t])
    /\ frames' = [frames EXCEPT ![t] = Step(self, frames[t])]
    /\ UNCHANGED <<args, self, attrs, ctor>>

NextConc == \E t \in DOMAIN frames : StepCall(t)

SpecConc == InitConc /\ [][NextConc]_vars

\* C7: whatever the interleaving, a finished call has the outcome of the
\* same call run alone on the instance, and the instance is the one that
\* was built.
InterleavedCallsAgreeWithIsolated ==
    /\ self \in ConcInstances
    /\ args = DirectArgs(self)
    /\ \A t \in DOMAIN frames :
           Finished(frames[t]) =>
               Outcome(frames[t]) = evaluate_solution(self, frames[t].solution)

\* C7 witness: every call has returned, two of them on different
\* permutations with different scores.
InterleavedCallsFinished ==
    /\ \A t \in DOMAIN frames : frames[t].pc = "return"
    /\ \E t, u \in DOMAIN frames :
        /\ t # u
        /\ frames[t].solution # frames[u].solution
        /\ frames[t].ret # frames[u].ret
        /\ frames[t].ret # PENALTY
        /\ frames[u].ret # PENALTY

(***************************************************************************)
(* Construction.  The integers of the instance file are args.instance_file *)
(* (line 54: data); reading the file is outside the model.                 *)
(***************************************************************************)
\* The object before __init__ assigns anything: attrs is empty, and the
\* fields below hold no attribute.
BlankObject ==
    [nb_positions |-> 0, nb_options |-> 0, max_cars_per_window |-> <<>>,
     window_size |-> <<>>, options |-> <<>>, initial_sequence |-> <<>>]

\* The state of _load_instance: the iterator (data, pos tokens consumed),
\* the locals, the object, and the exception raised if any.
Loader(data) ==
    [data |-> data, pos |-> 0, nb_classes |-> 0, nb_cars |-> <<>>,
     obj |-> BlankObject, attrs |-> {}, exc |-> "none"]

\* next(it) succeeds n times more
HasNext(st, n) == st.pos + n <= Len(st.data)

\* the i-th of the tokens not yet consumed
Peek(st, i) == st.data[st.pos + i]

Exhausted(st) == [st EXCEPT !.pos = Len(st.data), !.exc = "StopIteration"]

\* lines 56-58
ReadHeader(st) ==
    IF ~HasNext(st, 1) THEN Exhausted(st)
    ELSE IF ~HasNext(st, 2)
        THEN Exhausted([st EXCEPT !.obj.nb_positions = Peek(st, 1),
                                  !.attrs = {"nb_positions"}])
    ELSE IF ~HasNext(st, 3)
        THEN Exhausted([st EXCEPT !.obj.nb_positions = Peek(st, 1),
                                  !.obj.nb_options = Peek(st, 2),
                                  !.attrs = {"nb_positions", "nb_options"}])
    ELSE [st EXCEPT !.obj.nb_positions = Peek(st, 1),
                    !.obj.nb_options = Peek(st, 2),
                    !.nb_classes = Peek(st, 3),
                    !.attrs = {"nb_positions", "nb_options"},
                    !.pos = st.pos + 3]

\* [next(it) for _ in range(self.nb_options)]
NextTokens(st) == [o \in 1..st.obj.nb_options |-> Peek(st, o)]

\* lines 59-63
ReadLimits(st) ==
    LET m == st.obj.nb_options IN
    IF ~HasNext(st, m) THEN Exhausted(st)
    ELSE LET st1 == [st EXCEPT !.obj.max_cars_per_window = NextTokens(st),
                               !.attrs = @ \cup {"max_cars_per_window"},
                               !.pos = st.pos + m]
         IN IF ~HasNext(st1, m) THEN Exhausted(st1)
            ELSE [st1 EXCEPT !.obj.window_size = NextTokens(st1),
                             !.attrs = @ \cup {"window_size", "options", "initial_sequence"},
                             !.pos = st1.pos + m]

\* ReadClass appending the class-index token of the file instead of c.
ReadClassByToken(st, c) ==
    LET m == st.obj.nb_options IN
    IF ~HasNext(st, 2 + m) THEN Exhausted(st)
    ELSE LET count == Peek(st, 2)
             opt == [o \in 1..m |-> Peek(st, 2 + o) = 1]
         IN [st EXCEPT !.nb_cars = Append(@, count),
                       !.obj.options = Append(@, opt),
                       !.obj.initial_sequence = @ \o [i \in 1..count |-> Peek(st, 1)],
                       !.pos = st.pos + 2 + m]

\* lines 65-73: one pass of the loop over the classes, for class c
ReadClass(st, c) ==
    LET m == st.obj.nb_options IN
    IF ~HasNext(st, 2 + m) THEN Exhausted(st)
    ELSE LET count == Peek(st, 2)
             opt == [o \in 1..m |-> Peek(st, 2 + o) = 1]
         IN [st EXCEPT !.nb_cars = Append(@, count),
                       !.obj.options = Append(@, opt),
                       !.obj.initial_sequence = @ \o [i \in 1..count |-> c],
                       !.pos = st.pos + 2 + m]

\* line 64: for c in range(nb_classes)
RECURSIVE ReadClasses(_, _)
ReadClasses(st, c) ==
    IF st.exc # "none" \/ c >= st.nb_classes THEN st
    ELSE ReadClasses(ReadClass(st, c), c + 1)

\* CheckLength rejecting tokens left over as well.
CheckLengthAndEnd(st) ==
    IF st.exc = "none" /\ (Len(st.obj.initial_sequence) # st.obj.nb_positions
                             \/ st.pos # Len(st.data))
        THEN [st EXCEPT !.exc = "ValueError"]
    ELSE st

\* lines 74-75
CheckLength(st) ==
    IF st.exc = "none" /\ Len(st.obj.initial_sequence) # st.obj.nb_positions
        THEN [st EXCEPT !.exc = "ValueError"]
    ELSE st

\* lines 47-75, from the integers read
_load_instance(data) ==
    LET h == ReadHeader(Loader(data)) IN
    IF h.exc # "none" THEN h
    ELSE LET l == ReadLimits(h) IN
         IF l.exc # "none" THEN l
         ELSE CheckLength(ReadClasses(l, 0))

\* line 33-34: __init__ with an instance file
InitFromFile ==
    /\ ctor = "pending"
    /\ args.instance_file # None
    /\ LET st == _load_instance(args.instance_file[1]) IN
        /\ self' = st.obj
        /\ attrs' = st.attrs
        /\ ctor' = IF st.exc = "none" THEN "ok" ELSE st.exc
    /\ UNCHANGED <<args, frames>>

\* lines 36-38: a keyword argument is None
Missing(a) ==
    \/ a.nb_positions = None
    \/ a.nb_options = None
    \/ a.max_cars_per_window = None
    \/ a.window_size = None
    \/ a.options = None
    \/ a.initial_sequence = None

\* InitDirect raising only when every keyword argument is None.
InitDirectAllMissing ==
    /\ ctor = "pending"
    /\ args.instance_file = None
    /\ IF /\ args.nb_positions = None
          /\ args.nb_options = None
          /\ args.max_cars_per_window = None
          /\ args.window_size = None
          /\ args.options = None
          /\ args.initial_sequence = None
         THEN /\ ctor' = "ValueError"
              /\ UNCHANGED <<self, attrs>>
         ELSE /\ self' = [nb_positions |-> IF args.nb_positions = None THEN 0 ELSE args.nb_positions[1],
                          nb_options |-> IF args.nb_options = None THEN 0 ELSE args.nb_options[1],
                          max_cars_per_window |-> IF args.max_cars_per_window = None THEN <<>> ELSE args.max_cars_per_window[1],
                          window_size |-> IF args.window_size = None THEN <<>> ELSE args.window_size[1],
                          options |-> IF args.options = None THEN <<>> ELSE args.options[1],
                          initial_sequence |-> IF args.initial_sequence = None THEN <<>> ELSE args.initial_sequence[1]]
              /\ attrs' = AttrNames
              /\ ctor' = "ok"
    /\ UNCHANGED <<args, frames>>

\* lines 35-45: __init__ without an instance file
InitDirect ==
    /\ ctor = "pending"
    /\ args.instance_file = None
    /\ IF Missing(args)
         THEN /\ ctor' = "ValueError"
              /\ UNCHANGED <<self, attrs>>
         ELSE /\ self' = [nb_positions |-> args.nb_positions[1],
                          nb_options |-> args.nb_options[1],
                          max_cars_per_window |-> args.max_cars_per_window[1],
                          window_size |-> args.window_size[1],
                          options |-> args.options[1],
                          initial_sequence |-> args.initial_sequence[1]]
              /\ attrs' = AttrNames
              /\ ctor' = "ok"
    /\ UNCHANGED <<args, frames>>

\* The constructor calls tried.
Streams == UNION {[1..l -> 0..MaxTok] : l \in 0..MaxTokens}

FileCalls ==
    [instance_file : {Some(d) : d \in Streams}, nb_positions : {None},
     nb_options : {None}, max_cars_per_window : {None}, window_size : {None},
     options : {None}, initial_sequence : {None}]

DirectCalls ==
    [instance_file : {None},
     nb_positions : {None, Some(0), Some(1), Some(2)},
     nb_options : {None, Some(1), Some(2)},
     max_cars_per_window : {None, Some(<<1>>), Some(<<1, 1>>)},
     window_size : {None, Some(<<2>>), Some(<<2, 1>>)},
     options : {None, Some(<<(<<TRUE>>), (<<FALSE>>)>>),
                Some(<<(<<TRUE, FALSE>>), (<<FALSE, TRUE>>)>>)},
     initial_sequence : {None, Some(<<>>), Some(<<0>>), Some(<<0, 1>>)}]

InitBuild ==
    /\ args \in FileCalls \cup DirectCalls
    /\ self = BlankObject
    /\ attrs = {}
    /\ ctor = "pending"
    /\ frames = <<>>

NextBuild == InitFromFile \/ InitDirect

SpecBuild == InitBuild /\ [][NextBuild]_vars

(***************************************************************************)
(* Properties of the construction, checked under SpecBuild.                *)
(***************************************************************************)
FromFile == args.instance_file # None
Data == args.instance_file[1]

\* 3 + 2*nb_options + nb_classes*(2 + nb_options), from the header of the
\* stream; a stream without a whole header lacks tokens whatever they are.
ExpectedTokens(data) ==
    IF Len(data) < 3 THEN 3
    ELSE 3 + 2 * data[2] + data[3] * (2 + data[2])

\* C3 as claimed: a construction from a stream succeeds only if the stream
\* has exactly the expected number of tokens.
SuccessOnlyWithExactTokenCount ==
    (FromFile /\ ctor = "ok") => Len(Data) = ExpectedTokens(Data)

\* what a construction from data ends with
LoadResult(data) ==
    LET st == _load_instance(data) IN
    [obj |-> st.obj, attrs |-> st.attrs, exc |-> st.exc]

\* C3 as amended: a stream with fewer tokens than expected ends in
\* StopIteration and builds nothing; a stream with at least as many ends as
\* its first expected-many tokens alone do, the rest being ignored.
TrailingTokensIgnored ==
    (FromFile /\ ctor # "pending") =>
        IF Len(Data) < ExpectedTokens(Data)
            THEN ctor = "StopIteration"
        ELSE LET r == LoadResult(SubSeq(Data, 1, ExpectedTokens(Data))) IN
             /\ self = r.obj
             /\ attrs = r.attrs
             /\ ctor = (IF r.exc = "none" THEN "ok" ELSE r.exc)
             /\ ctor \in {"ok", "ValueError"}

\* C3 witness: a stream with a class and tokens after the expected ones has
\* built an instance.
BuiltDespiteTrailingTokens ==
    /\ FromFile
    /\ ctor = "ok"
    /\ Len(Data) > ExpectedTokens(Data)
    /\ Data[3] >= 1
    /\ self.nb_positions >= 1

\* the documented shape of the instance data
ShapeHolds(obj) ==
    /\ Len(obj.max_cars_per_window) = obj.nb_options
    /\ Len(obj.window_size) = obj.nb_options
    /\ \A c \in 1..Len(obj.options) : Len(obj.options[c]) = obj.nb_options
    /\ Len(obj.initial_sequence) = obj.nb_positions
    /\ \A i \in 1..Len(obj.initial_sequence) :
           obj.initial_sequence[i] + 1 \in 1..Len(obj.options)

\* C4: an object whose construction succeeded has the documented shape.
BuiltInstanceHasShape ==
    ctor = "ok" => ShapeHolds(self)

\* the tokens of class c in the stream: where its class-index token is
ClassBase(data, c) == 3 + 2 * data[2] + c * (2 + data[2])
CarCount(data, c) == data[ClassBase(data, c) + 2]
Indicator(data, c, o) == data[ClassBase(data, c) + 2 + o + 1]

RECURSIVE CarsBefore(_, _)
CarsBefore(data, c) ==
    IF c = 0 THEN 0 ELSE CarsBefore(data, c - 1) + CarCount(data, c - 1)

\* C5: an instance built from a stream has, for each class c, the car count
\* of c many entries c in initial_sequence, the classes in increasing
\* order, and options[c][o] true exactly when the indicator is 1.
RoundTripFromStream ==
    (FromFile /\ ctor = "ok") =>
        LET nc == Data[3] IN
        /\ Len(self.options) = nc
        /\ Len(self.initial_sequence) = CarsBefore(Data, nc)
        /\ \A c \in 0..(nc - 1) :
            /\ Cardinality({i \in 1..Len(self.initial_sequence) :
                               self.initial_sequence[i] = c}) = CarCount(Data, c)
            /\ \A i \in (CarsBefore(Data, c) + 1)..CarsBefore(Data, c + 1) :
                   self.initial_sequence[i] = c
            /\ \A o \in 0..(self.nb_options - 1) :
                   self.options[c + 1][o + 1] <=> (Indicator(Data, c, o) = 1)

\* C5 witness: two classes with a car each, whose class-index tokens are
\* not their class ids, have been expanded.
TwoClassesExpanded ==
    /\ FromFile
    /\ ctor = "ok"
    /\ Data[3] = 2
    /\ CarCount(Data, 0) = 1
    /\ CarCount(Data, 1) = 1
    /\ Data[ClassBase(Data, 0) + 1] # 0
    /\ Data[ClassBase(Data, 1) + 1] # 1
    /\ self.initial_sequence = <<0, 1>>

\* C6: a direct construction with an argument missing raises ValueError and
\* assigns no attribute; with all six given it succeeds and every attribute
\* is the value given.
DirectConstruction ==
    (~FromFile /\ ctor # "pending") =>
        IF Missing(args)
            THEN ctor = "ValueError" /\ attrs = {} /\ self = BlankObject
        ELSE /\ ctor = "ok"
             /\ attrs = AttrNames
             /\ args = DirectArgs(self)

\* C6 witness: a direct construction with exactly one argument missing has
\* raised.
OneArgumentMissing ==
    /\ ~FromFile
    /\ ctor = "ValueError"
    /\ args.nb_positions # None
    /\ args.nb_options # None
    /\ args.max_cars_per_window # None
    /\ args.window_size = None
    /\ args.options # None
    /\ args.initial_sequence # None

=============================================================================
